---- MODULE Spec2Model ----
(***************************************************************************)
(* PN532 frame protocol engine of scripts/pn532_controller.py:             *)
(* the frame codec (_build_frame, _read_frame), the command channel        *)
(* (send_command) and the command set built on it, over a serial Transport *)
(* that is a byte stream with blocking reads that time out.                *)
(*                                                                         *)
(* Bytes are integers 0..255; byte strings are sequences of them.          *)
(* The specifications share the state and the reader's actions:            *)
(*   Spec      - a controller issuing Command Set / send_command calls to  *)
(*               a chip that answers each written frame with a reply,      *)
(*               which may be damaged, cut short, or late;                 *)
(*   SpecCodec - the codec alone over a mock Transport: a frame built by   *)
(*               _build_frame is fed to _read_frame (optionally with one   *)
(*               checksum byte replaced), or _read_frame reads a raw byte  *)
(*               stream that arrives byte by byte and may stop anywhere;   *)
(*   SpecSet   - every Command Set operation against a prompt chip that    *)
(*               answers with valid frames carrying any payload of a set;  *)
(*   SpecMain  - main: connect (wakeup, firmware query), the scenario      *)
(*               chosen by --mode with its polling loop, Ctrl+C, and the   *)
(*               final disconnect; SpecMainFair adds that the controller   *)
(*               keeps running.                                            *)
(***************************************************************************)
EXTENDS Integers, Sequences, FiniteSets, TLC

VARIABLES
    pc,         \* position of the controller: idle, ack, header, len_lcs,
                \* data_dcs, postamble (blocked in that read), ret (send_command /
                \* _read_frame has returned), built, raised (an exception left the call)
    op,         \* the operation in progress or last finished
    command,    \* send_command's command argument (one byte, as a sequence)
    params,     \* send_command's params argument
    frame,      \* the value of _build_frame(command + params)
    tx,         \* what has been written to the Transport, oldest first
    rx,         \* bytes the Transport has received and the controller has not read
    pending,    \* frames written that the chip has not answered yet
    late,       \* bytes of the chip's answers still on their way to the Transport
    ack,        \* send_command's local ack
    header,     \* _read_frame's local header
    len_lcs,    \* _read_frame's local len_lcs
    data_dcs,   \* _read_frame's local data_dcs
    response,   \* the value returned by send_command / _read_frame
    result,     \* the value returned by the Command Set operation
    nreads,     \* Transport reads issued by the call in progress
    nwrites,    \* Transport writes issued by the call in progress
    shortRead,  \* a read of _read_frame returned fewer bytes than requested
    failRead,   \* nreads when _read_frame first met a short read or a failed check, else 0
    corrupt,    \* SpecCodec: which checksum byte of the fed frame was replaced
    calls,      \* Command Set / send_command calls issued so far
    mpc,        \* position of main / connect / the running scenario
    serial,     \* self.serial: None, open, closed
    flushed,    \* for each reset_input_buffer so far, the number of writes before it
    mode,       \* args.mode
    card_info,  \* scenario_2's local card_info
    polls       \* sleeps of the running scenario's loop so far

vars == <<pc, op, command, params, frame, tx, rx, pending, late, ack, header, len_lcs,
          data_dcs, response, result, nreads, nwrites, shortRead, failRead,
          corrupt, calls, mpc, serial, flushed, mode, card_info, polls>>

\* what main, connect and the scenarios keep between Command Set calls
session == <<mpc, serial, flushed, mode, card_info, polls>>

---------------------------------------------------------------------------
(* Bounds of the model *)

\* send_command / Command Set calls per behaviour of Spec
MaxCalls == 2
\* longest params sequence enumerated byte by byte
MaxShortParams == 2
\* params lengths beyond the longest frame that fits the length byte
MaxOver == 1
\* most bytes the mock Transport of SpecCodec delivers to one blocked read
MaxBurst == 3
\* longest payload the chip puts in a response frame
MaxPayload == 2
\* most UID bytes, declared or present, in a detection response of SpecSet
MaxUid == 2
\* most bytes after the status byte in a response of SpecSet
MaxData == 4
\* sleeps of a scenario's polling loop per behaviour of SpecMain
MaxPolls == 2

---------------------------------------------------------------------------
(* Program constants *)

CMD_GET_FIRMWARE_VERSION == 2
CMD_SAM_CONFIGURATION == 20
CMD_IN_LIST_PASSIVE_TARGET == 74
CMD_IN_DATA_EXCHANGE == 64
CMD_IN_RELEASE == 82
CMD_TG_INIT_AS_TARGET == 140
CMD_TG_GET_DATA == 134
CMD_TG_SET_DATA == 142

PREAMBLE == <<0>>
STARTCODE1 == <<0>>
STARTCODE2 == <<255>>
POSTAMBLE == <<0>>

ACK == <<0, 0, 255, 0, 255, 0>>
NACK == <<0, 0, 255, 255, 0, 0>>

\* tfi = b'\xD4', host to PN532
TFI == 212
\* & 0xFF: arithmetic on one byte
ByteMod == 256
\* largest value bytes([length]) accepts
ByteMax == 255
\* self.serial.read(6), read(3), read(2), read(1)
AckLen == 6
HeaderLen == 3
LenLcsLen == 2
PostambleLen == 1

---------------------------------------------------------------------------
(* Values *)

\* Python's None and a returned bytes object
None == [some |-> FALSE, val |-> <<>>]
Some(b) == [some |-> TRUE, val |-> b]

Min(a, b) == IF a < b THEN a ELSE b

RECURSIVE SumRange(_, _, _)
\* s[lo] + ... + s[hi], by halves
SumRange(s, lo, hi) ==
    IF lo > hi THEN 0
    ELSE IF lo = hi THEN s[lo]
    ELSE LET mid == (lo + hi) \div 2
         IN  SumRange(s, lo, mid) + SumRange(s, mid + 1, hi)

\* sum(bytes)
Sum(s) == SumRange(s, 1, Len(s))

\* (~x + 1) & 0xFF
NegByte(x) == (ByteMod - (x % ByteMod)) % ByteMod

\* b'\xNN' * n
Repeat(b, n) == [i \in 1..n |-> b]

\* s[i:j] of Python for 0 <= i, j >= 0
Slice(s, i, j) == SubSeq(s, i + 1, Min(j, Len(s)))

---------------------------------------------------------------------------
(* Frame Codec: _build_frame *)

\* the concatenation that lays a frame out on the wire
FrameLayout(length, lcs, tfi, data, dcs) ==
    PREAMBLE \o STARTCODE1 \o STARTCODE2 \o <<length>> \o <<lcs>> \o <<tfi>>
        \o data \o <<dcs>> \o POSTAMBLE

\* _build_frame with the LCS taken as the one's complement (~length) & 0xFF:
\* the + 1 of the two's complement forgotten
_build_frame_onescomp(data) ==
    LET length == Len(data) + 1
        lcs == (ByteMod - 1 - (length % ByteMod)) % ByteMod
        dcs == NegByte(TFI + Sum(data))
    IN  IF length > ByteMax
        THEN [ok |-> FALSE, bytes |-> <<>>]
        ELSE [ok |-> TRUE, bytes |-> FrameLayout(length, lcs, TFI, data, dcs)]

\* _build_frame with the length byte masked (length & 0xFF) instead of
\* passed to bytes([length]): nothing is raised for a length over 255
_build_frame_wrap(data) ==
    LET length == Len(data) + 1
        lcs == NegByte(length)
        dcs == NegByte(TFI + Sum(data))
    IN  [ok |-> TRUE,
         bytes |-> FrameLayout(length % ByteMod, lcs, TFI, data, dcs)]

\* _build_frame(data): the frame, or ok = FALSE when bytes([length]) raises
\* ValueError because length does not fit a byte
_build_frame(data) ==
    LET length == Len(data) + 1
        lcs == NegByte(length)
        dcs == NegByte(TFI + Sum(data))
    IN  IF length > ByteMax
        THEN [ok |-> FALSE, bytes |-> <<>>]
        ELSE [ok |-> TRUE, bytes |-> FrameLayout(length, lcs, TFI, data, dcs)]

\* the value frame holds before any frame was built
NoFrame == [ok |-> FALSE, bytes |-> <<>>]

---------------------------------------------------------------------------
(* Transport reads: self.serial.read(n) returns n bytes, or, when the      *)
(* timeout expires first, the fewer bytes that had arrived.                *)

SerialRead(n) == SubSeq(rx, 1, Min(n, Len(rx)))
SerialRest(n) == SubSeq(rx, Min(n, Len(rx)) + 1, Len(rx))

---------------------------------------------------------------------------
(* Frame Codec: _read_frame, one action per Transport read *)

\* header != PREAMBLE + STARTCODE1 + STARTCODE2
HeaderOk(h) == h = PREAMBLE \o STARTCODE1 \o STARTCODE2

\* (length + lcs) & 0xFF != 0
LcsOk(length, lcs) == (length + lcs) % ByteMod = 0

\* tfi = data_dcs[0]; data = data_dcs[1:-1]; dcs = data_dcs[-1]
FrameTfi(dd) == dd[1]
\* data = data_dcs[:-1]: the direction tag left in the returned data
FrameData_keepTfi(dd) == Slice(dd, 0, Len(dd) - 1)
FrameData(dd) == Slice(dd, 1, Len(dd) - 1)
FrameDcs(dd) == dd[Len(dd)]

\* the checksum taken over data and dcs only, the direction tag left out
DcsOk_noTfi(dd) == (Sum(FrameData(dd)) + FrameDcs(dd)) % ByteMod = 0

\* checksum = (tfi + sum(data) + dcs) & 0xFF; checksum != 0
DcsOk(dd) == (FrameTfi(dd) + Sum(FrameData(dd)) + FrameDcs(dd)) % ByteMod = 0

\* ghost: the read just issued is where decoding first failed
MarkFail == failRead' = IF failRead = 0 THEN nreads + 1 ELSE failRead

\* header = self.serial.read(3) and the two checks on it
ReadHeader ==
    /\ pc = "header"
    /\ LET got == SerialRead(HeaderLen) IN
       /\ header' = got
       /\ rx' = SerialRest(HeaderLen)
       /\ nreads' = nreads + 1
       /\ IF Len(got) < HeaderLen
          THEN /\ pc' = "ret" /\ response' = None
               /\ shortRead' = TRUE /\ MarkFail
          ELSE IF ~HeaderOk(got)
          THEN /\ pc' = "ret" /\ response' = None
               /\ MarkFail /\ UNCHANGED shortRead
          ELSE /\ pc' = "len_lcs"
               /\ UNCHANGED <<response, shortRead, failRead>>
    /\ UNCHANGED <<op, command, params, frame, tx, pending, late, ack, len_lcs,
                   data_dcs, result, nwrites, corrupt, calls>>
    /\ UNCHANGED session

\* len_lcs = self.serial.read(2) and the LCS check
ReadLenLcs ==
    /\ pc = "len_lcs"
    /\ LET got == SerialRead(LenLcsLen) IN
       /\ len_lcs' = got
       /\ rx' = SerialRest(LenLcsLen)
       /\ nreads' = nreads + 1
       /\ IF Len(got) < LenLcsLen
          THEN /\ pc' = "ret" /\ response' = None
               /\ shortRead' = TRUE /\ MarkFail
          ELSE IF ~LcsOk(got[1], got[2])
          THEN /\ pc' = "ret" /\ response' = None
               /\ MarkFail /\ UNCHANGED shortRead
          ELSE /\ pc' = "data_dcs"
               /\ UNCHANGED <<response, shortRead, failRead>>
    /\ UNCHANGED <<op, command, params, frame, tx, pending, late, ack, header,
                   data_dcs, result, nwrites, corrupt, calls>>
    /\ UNCHANGED session

\* data_dcs = self.serial.read(length + 1) and the DCS check
ReadDataDcs ==
    /\ pc = "data_dcs"
    /\ LET length == len_lcs[1]
           got == SerialRead(length + 1)
       IN
       /\ data_dcs' = got
       /\ rx' = SerialRest(length + 1)
       /\ nreads' = nreads + 1
       /\ IF Len(got) < length + 1
          THEN /\ pc' = "ret" /\ response' = None
               /\ shortRead' = TRUE /\ MarkFail
          ELSE IF ~DcsOk(got)
          THEN /\ pc' = "ret" /\ response' = None
               /\ MarkFail /\ UNCHANGED shortRead
          ELSE /\ pc' = "postamble"
               /\ UNCHANGED <<response, shortRead, failRead>>
    /\ UNCHANGED <<op, command, params, frame, tx, pending, late, ack, header,
                   len_lcs, result, nwrites, corrupt, calls>>
    /\ UNCHANGED session

\* postamble = self.serial.read(1); return data
ReadPostamble ==
    /\ pc = "postamble"
    /\ LET got == SerialRead(PostambleLen) IN
       /\ rx' = SerialRest(PostambleLen)
       /\ nreads' = nreads + 1
       /\ IF Len(got) < PostambleLen
          THEN shortRead' = TRUE /\ MarkFail
          ELSE UNCHANGED <<shortRead, failRead>>
       /\ response' = Some(FrameData(data_dcs))
       /\ pc' = "ret"
    /\ UNCHANGED <<op, command, params, frame, tx, pending, late, ack, header,
                   len_lcs, data_dcs, result, nwrites, corrupt, calls>>
    /\ UNCHANGED session

---------------------------------------------------------------------------
(* Inputs *)

\* bytes params are enumerated over
ParamBytes == {0, 1, 255}
\* opcode bytes _build_frame is applied to
OpcodeBytes == {CMD_GET_FIRMWARE_VERSION, CMD_TG_SET_DATA, ByteMax}

\* params: every short sequence, and long ones of one repeated byte whose
\* length is around the longest that fits (ByteMax - 2)
ParamInputs ==
    UNION {[1..n -> ParamBytes] : n \in 0..MaxShortParams}
    \cup {Repeat(b, n) : b \in ParamBytes,
                         n \in (ByteMax - 3)..(ByteMax - 2 + MaxOver)}

\* what callers hand to send_command in Spec
CallCommands == {CMD_IN_DATA_EXCHANGE}
CallParams == {<<1>>} \cup {Repeat(0, n) : n \in (ByteMax - 1)..(ByteMax - 2 + MaxOver)}

NoCard == [target_number |-> 0, sens_res |-> <<>>, sel_res |-> 0,
           uid_length |-> 0, uid |-> <<>>, card_type |-> <<>>]

\* what a Command Set operation hands to its caller: kind is "None", "bytes",
\* "card" (a card_info dict), or "IndexError" (the exception left the operation)
ResNotYet == [kind |-> "not yet", data |-> <<>>, card |-> NoCard]
ResNone == [kind |-> "None", data |-> <<>>, card |-> NoCard]
ResBytes(b) == [kind |-> "bytes", data |-> b, card |-> NoCard]
ResCard(c) == [kind |-> "card", data |-> <<>>, card |-> c]
ResIndexError == [kind |-> "IndexError", data |-> <<>>, card |-> NoCard]

---------------------------------------------------------------------------
(* Command Channel: send_command *)

\* only the first three bytes of the six compared with the ACK literal
AckOk_prefix(a) == Len(a) = AckLen /\ SubSeq(a, 1, 3) = SubSeq(ACK, 1, 3)

\* ack != self.ACK
AckOk(a) == a = ACK

\* send_command up to its first Transport read: build the frame (an exception
\* of _build_frame leaves the call before anything is written), write it
Invoke(o, c, p) ==
    /\ pc = "idle"
    /\ op' = o /\ command' = c /\ params' = p
    /\ calls' = calls + 1
    /\ frame' = _build_frame(c \o p)
    /\ IF frame'.ok
       THEN /\ tx' = Append(tx, frame'.bytes)
            /\ pending' = pending + 1
            /\ nwrites' = 1
            /\ pc' = "ack"
       ELSE /\ pc' = "raised"
            /\ nwrites' = 0
            /\ UNCHANGED <<tx, pending>>
    /\ ack' = <<>> /\ header' = <<>> /\ len_lcs' = <<>> /\ data_dcs' = <<>>
    /\ response' = None
    /\ nreads' = 0 /\ shortRead' = FALSE /\ failRead' = 0
    /\ result' = ResNotYet
    /\ UNCHANGED <<rx, late, corrupt>>

\* ack = self.serial.read(6); a mismatch returns None, a match goes on to
\* response = self._read_frame()
ReadAck ==
    /\ pc = "ack"
    /\ LET got == SerialRead(AckLen) IN
       /\ ack' = got
       /\ rx' = SerialRest(AckLen)
       /\ nreads' = nreads + 1
       /\ pc' = IF AckOk(got) THEN "header" ELSE "ret"
    /\ UNCHANGED <<op, command, params, frame, tx, pending, late, header, len_lcs,
                   data_dcs, response, result, nwrites, shortRead, failRead,
                   corrupt, calls>>
    /\ UNCHANGED session

---------------------------------------------------------------------------
(* Command Set *)

\* a lookup that tries the listed values first, on the SAK without bit 0x20,
\* and bit 0x20 after them
_identify_card_type_listedFirst(sak) ==
    LET low == sak - 32 * ((sak \div 32) % 2) IN
    IF low = 8 THEN <<"MIFARE Classic 1K">>
    ELSE IF low = 24 THEN <<"MIFARE Classic 4K">>
    ELSE IF low = 16 THEN <<"MIFARE Plus">>
    ELSE IF (sak \div 32) % 2 = 1 THEN <<"ISO14443-4 (EMV/Smart Card)">>
    ELSE IF sak = 0 THEN <<"MIFARE Ultralight">>
    ELSE <<"Unknown (SAK)", sak>>

\* _identify_card_type(sak): the name, and for an unknown SAK the raw value
\* the returned string carries
_identify_card_type(sak) ==
    IF (sak \div 32) % 2 = 1 THEN <<"ISO14443-4 (EMV/Smart Card)">>
    ELSE IF sak = 8 THEN <<"MIFARE Classic 1K">>
    ELSE IF sak = 24 THEN <<"MIFARE Classic 4K">>
    ELSE IF sak = 0 THEN <<"MIFARE Ultralight">>
    ELSE IF sak = 16 THEN <<"MIFARE Plus">>
    ELSE <<"Unknown (SAK)", sak>>

\* Python truth of an Optional[bytes]: None and b'' are false
Truthy(r) == r.some /\ r.val # <<>>

\* read_passive_target after send_command returned r
ParseTarget(r) ==
    IF ~Truthy(r) \/ Len(r.val) < 2 THEN ResNone
    ELSE IF r.val[1] = 0 THEN ResNone
    ELSE IF Len(r.val) < 6 THEN ResIndexError
    ELSE LET uid_length == r.val[6] IN
         ResCard([target_number |-> r.val[2],
                  sens_res |-> Slice(r.val, 2, 4),
                  sel_res |-> r.val[5],
                  uid_length |-> uid_length,
                  uid |-> Slice(r.val, 6, 6 + uid_length),
                  card_type |-> _identify_card_type(r.val[5])])

\* a caller calls send_command(command, params) directly
Call_send_command ==
    /\ calls < MaxCalls
    /\ \E c \in CallCommands, p \in CallParams :
        Invoke("send_command", <<c>>, p)
    /\ UNCHANGED session

\* send_command returns response to that caller
Return_send_command ==
    /\ pc = "ret" /\ op = "send_command"
    /\ result' = IF response.some THEN ResBytes(response.val) ELSE ResNone
    /\ pc' = "idle"
    /\ ack' = <<>> /\ header' = <<>> /\ len_lcs' = <<>> /\ data_dcs' = <<>>
    /\ UNCHANGED <<op, command, params, frame, tx, rx, pending, late, response,
                   nreads, nwrites, shortRead, failRead, corrupt, calls>>
    /\ UNCHANGED session

\* read_passive_target(card_type, max_targets) up to send_command's first read:
\* params = bytes([max_targets, card_type])
read_passive_target(card_type, max_targets) ==
    Invoke("read_passive_target", <<CMD_IN_LIST_PASSIVE_TARGET>>,
           <<max_targets, card_type>>)

Call_read_passive_target ==
    /\ calls < MaxCalls
    /\ \E card_type \in {0}, max_targets \in {1} :
        read_passive_target(card_type, max_targets)
    /\ UNCHANGED session

\* read_passive_target from the return of send_command to its own return
Return_read_passive_target ==
    /\ pc = "ret" /\ op = "read_passive_target"
    /\ result' = ParseTarget(response)
    /\ pc' = IF result'.kind = "IndexError" THEN "raised" ELSE "idle"
    /\ ack' = <<>> /\ header' = <<>> /\ len_lcs' = <<>> /\ data_dcs' = <<>>
    /\ UNCHANGED <<op, command, params, frame, tx, rx, pending, late, response,
                   nreads, nwrites, shortRead, failRead, corrupt, calls>>
    /\ UNCHANGED session

\* a Command Set operation o returns r to its caller, or raises
Returns(o, r) ==
    /\ pc = "ret" /\ op = o
    /\ result' = r
    /\ pc' = IF r.kind = "IndexError" THEN "raised" ELSE "idle"
    /\ ack' = <<>> /\ header' = <<>> /\ len_lcs' = <<>> /\ data_dcs' = <<>>
    /\ UNCHANGED <<op, command, params, frame, tx, rx, pending, late, response,
                   nreads, nwrites, shortRead, failRead, corrupt, calls>>
    /\ UNCHANGED session

ResTrue == [kind |-> "True", data |-> <<>>, card |-> NoCard]
ResFalse == [kind |-> "False", data |-> <<>>, card |-> NoCard]
\* the four values get_firmware_version formats into the string it returns
ResFirmware(ic, ver, rev, support) ==
    [kind |-> "firmware", data |-> <<ic, ver, rev, support>>, card |-> NoCard]

\* get_firmware_version: send_command(CMD_GET_FIRMWARE_VERSION)
get_firmware_version == Invoke("get_firmware_version", <<CMD_GET_FIRMWARE_VERSION>>, <<>>)

\* a decoder that takes any response with something in it for a version
ParseFirmware_any(r) ==
    IF Truthy(r)
    THEN ResFirmware(r.val[1], r.val[Len(r.val)], r.val[Len(r.val)], r.val[Len(r.val)])
    ELSE ResNone

\* get_firmware_version after send_command returned r
ParseFirmware(r) ==
    IF Truthy(r) /\ Len(r.val) >= 4
    THEN ResFirmware(r.val[1], r.val[2], r.val[3], r.val[4])
    ELSE ResNone

Call_get_firmware_version ==
    /\ calls < MaxCalls
    /\ get_firmware_version
    /\ UNCHANGED session

Return_get_firmware_version == Returns("get_firmware_version", ParseFirmware(response))

\* sam_configuration: params = b'\x01\x14\x01'
sam_configuration == Invoke("sam_configuration", <<CMD_SAM_CONFIGURATION>>, <<1, 20, 1>>)

\* return response is not None
ParseSam(r) == IF r.some THEN ResTrue ELSE ResFalse

Call_sam_configuration ==
    /\ calls < MaxCalls
    /\ sam_configuration
    /\ UNCHANGED session

Return_sam_configuration == Returns("sam_configuration", ParseSam(response))

\* transceive_apdu(target, apdu): params = bytes([target]) + apdu
transceive_apdu(target, apdu) ==
    Invoke("transceive_apdu", <<CMD_IN_DATA_EXCHANGE>>, <<target>> \o apdu)

\* transceive_apdu after send_command returned r
ParseExchange(r) ==
    IF ~Truthy(r) \/ Len(r.val) < 2 THEN ResNone
    ELSE IF r.val[1] # 0 THEN ResNone
    ELSE ResBytes(Tail(r.val))

\* bytes.fromhex('00A404000E325041592E5359532E444446303100')
select_ppse == <<0, 164, 4, 0, 14, 50, 80, 65, 89, 46, 83, 89, 83, 46, 68, 68, 70,
                 48, 49, 0>>

Call_transceive_apdu ==
    /\ calls < MaxCalls
    /\ \E target \in {1} : transceive_apdu(target, select_ppse)
    /\ UNCHANGED session

Return_transceive_apdu == Returns("transceive_apdu", ParseExchange(response))

\* release_target(target): the value of send_command is dropped
release_target(target) == Invoke("release_target", <<CMD_IN_RELEASE>>, <<target>>)

Call_release_target ==
    /\ calls < MaxCalls
    /\ \E target \in {1} : release_target(target)
    /\ UNCHANGED session

Return_release_target == Returns("release_target", ResNone)

\* init_as_target: mode, mifare_params, felica_params, nfcid3t and three
\* zero-length fields
init_as_target ==
    Invoke("init_as_target", <<CMD_TG_INIT_AS_TARGET>>,
           <<4>> \o <<0, 4>> \o <<8, 18, 52, 86>> \o <<32>> \o <<0, 0, 0>>
               \o <<0>> \o <<0>> \o <<0>>)

\* if response: True, else False
ParseInit(r) == IF Truthy(r) THEN ResTrue ELSE ResFalse

Call_init_as_target ==
    /\ calls < MaxCalls
    /\ init_as_target
    /\ UNCHANGED session

Return_init_as_target == Returns("init_as_target", ParseInit(response))

\* get_target_data: send_command(CMD_TG_GET_DATA)
get_target_data == Invoke("get_target_data", <<CMD_TG_GET_DATA>>, <<>>)

\* get_target_data after send_command returned r
ParseGetData(r) ==
    IF Truthy(r) /\ Len(r.val) > 1 /\ r.val[1] = 0
    THEN ResBytes(Tail(r.val))
    ELSE ResNone

Call_get_target_data ==
    /\ calls < MaxCalls
    /\ get_target_data
    /\ UNCHANGED session

Return_get_target_data == Returns("get_target_data", ParseGetData(response))

\* set_target_data(data)
set_target_data(data) == Invoke("set_target_data", <<CMD_TG_SET_DATA>>, data)

\* if response and response[0] == 0x00: True, else False
ParseSetData(r) == IF Truthy(r) /\ r.val[1] = 0 THEN ResTrue ELSE ResFalse

Call_set_target_data ==
    /\ calls < MaxCalls
    /\ set_target_data(<<144, 0>>)
    /\ UNCHANGED session

Return_set_target_data == Returns("set_target_data", ParseSetData(response))

---------------------------------------------------------------------------
(* The chip and the link, seen through the Transport *)

\* bytes of the payloads the chip sends
PayloadBytes == {0, 1}
Payloads == {<<>>} \cup {Repeat(b, MaxPayload) : b \in PayloadBytes}

\* a response frame as the chip lays it out, direction tag 0xD5
ChipFrame(p) ==
    FrameLayout(Len(p) + 1, NegByte(Len(p) + 1), 213, p, NegByte(213 + Sum(p)))

\* s with its i-th byte (from 1) replaced by v
Replace(s, i, v) == [s EXCEPT ![i] = v]

\* a response frame f as the link may hand it on: intact, or with its start
\* code, its LCS or its DCS damaged
Damaged(f) ==
    {f, Replace(f, 3, 0), Replace(f, 5, (f[5] + 1) % ByteMod),
     Replace(f, Len(f) - 1, (f[Len(f) - 1] + 1) % ByteMod)}

\* frames whose length byte is 0: no direction tag, one byte where the DCS is
ZeroLength == {<<0, 0, 255, 0, 0, b, 0>> : b \in {0, 128}}

\* the chip's answer to a written frame: an ACK followed by a response frame
\* (or by none), a NACK, or nothing
Replies ==
    {ACK \o f : f \in {<<>>} \cup ZeroLength
                     \cup UNION {Damaged(ChipFrame(p)) : p \in Payloads}}
    \cup {NACK, <<>>}

\* how much of an answer r reaches the Transport at once: all of it, all but
\* its last byte or two, or the first five bytes; the rest is late
Cuts(r) == {k \in {AckLen - 1, Len(r) - 2, Len(r) - 1, Len(r)} : 0 <= k /\ k <= Len(r)}

\* the chip answers a frame it was sent; the answer may arrive while the
\* controller waits in a read or after that read has timed out
ChipReply ==
    /\ pending > 0
    /\ late = <<>>
    /\ \E r \in Replies : \E k \in Cuts(r) :
        /\ rx' = rx \o SubSeq(r, 1, k)
        /\ late' = SubSeq(r, k + 1, Len(r))
    /\ pending' = pending - 1
    /\ UNCHANGED <<pc, op, command, params, frame, tx, ack, header, len_lcs,
                   data_dcs, response, result, nreads, nwrites, shortRead,
                   failRead, corrupt, calls>>
    /\ UNCHANGED session

\* the rest of an answer arrives, whatever the controller is doing by then
LateArrive ==
    /\ late # <<>>
    /\ rx' = rx \o late
    /\ late' = <<>>
    /\ UNCHANGED <<pc, op, command, params, frame, tx, pending, ack, header,
                   len_lcs, data_dcs, response, result, nreads, nwrites,
                   shortRead, failRead, corrupt, calls>>
    /\ UNCHANGED session

\* UID bytes as a card sends them
UidBytes(n) == [i \in 1..n |-> 16 + i]

\* detection responses: count, target number, ATQA, SAK, UID length L and
\* u UID bytes, for every SAK with a consistent L and for every L and u
\* up to MaxUid
TargetPayloads ==
    {<<1, 1, 0, 4, sak, 1>> \o UidBytes(1) : sak \in 0..(ByteMod - 1)}
    \cup {<<1, 1, 0, 4, 8, L>> \o UidBytes(u) : L \in 0..MaxUid, u \in 0..MaxUid}

\* every prefix of a detection response, with count 0 and with count 1
ShortPayloads ==
    {SubSeq(<<n, 1, 0, 4, 8, 1, 17>>, 1, k) : n \in {0, 1}, k \in 0..6}

\* a status byte followed by data
StatusPayloads ==
    {<<st>> \o [i \in 1..d |-> 32 + i] : st \in {0, 1, 39}, d \in 0..MaxData}

\* the payloads the chip of SpecSet puts in valid response frames
SetPayloads == TargetPayloads \cup ShortPayloads \cup StatusPayloads

\* a prompt chip answers the frame just written, before the controller's read
\* of the ACK times out, with an ACK and a valid response frame carrying a
\* payload of P, or with an ACK alone; a frame it has not answered by then it
\* never answers
Answer(P) ==
    /\ pending > 0
    /\ pc = "ack"
    /\ \E r \in {ACK \o ChipFrame(p) : p \in P} \cup {ACK} :
        rx' = rx \o r
    /\ pending' = 0
    /\ UNCHANGED <<pc, op, command, params, frame, tx, late, ack, header, len_lcs,
                   data_dcs, response, result, nreads, nwrites, shortRead,
                   failRead, corrupt, calls>>
    /\ UNCHANGED session

\* the chip of SpecSet
ChipAnswer == Answer(SetPayloads)

\* the payloads the chip of SpecMain answers with: those of SpecSet with one
\* SAK (0x08) in place of every SAK
ModePayloads ==
    ShortPayloads \cup StatusPayloads \cup {p \in TargetPayloads : p[5] = 8}

\* the chip of SpecMain
ChipAnswerMode == Answer(ModePayloads)

---------------------------------------------------------------------------
(* The codec over a mock Transport *)

\* bytes a raw stream is made of
WireBytes == {0, 1, 2, 128, 254, 255}

\* the read the controller is blocked in asks for this many bytes
Need ==
    CASE pc = "ack" -> AckLen
      [] pc = "header" -> HeaderLen
      [] pc = "len_lcs" -> LenLcsLen
      [] pc = "data_dcs" -> len_lcs[1] + 1
      [] pc = "postamble" -> PostambleLen
      [] OTHER -> 0

\* a test applies _build_frame to command + params
CodecBuild ==
    /\ pc = "idle" /\ op = "none"
    /\ \E o \in OpcodeBytes, p \in ParamInputs :
        /\ command' = <<o>> /\ params' = p
        /\ frame' = _build_frame(<<o>> \o p)
    /\ op' = "_build_frame"
    /\ pc' = IF frame'.ok THEN "built" ELSE "raised"
    /\ UNCHANGED <<tx, rx, pending, late, ack, header, len_lcs, data_dcs, response,
                   result, nreads, nwrites, shortRead, failRead, corrupt, calls>>
    /\ UNCHANGED session

\* the built frame is loaded into the mock Transport as it is and _read_frame
\* is called on it
CodecFeed ==
    /\ pc = "built"
    /\ rx' = frame.bytes
    /\ corrupt' = "none"
    /\ pc' = "header"
    /\ UNCHANGED <<op, command, params, frame, tx, pending, late, ack, header,
                   len_lcs, data_dcs, response, result, nreads, nwrites,
                   shortRead, failRead, calls>>
    /\ UNCHANGED session

\* the built frame is loaded with its LCS or its DCS byte replaced by another value
CodecFeedCorrupt ==
    /\ pc = "built"
    /\ \E which \in {"lcs", "dcs"}, v \in 0..(ByteMod - 1) :
        LET i == IF which = "lcs" THEN 5 ELSE Len(frame.bytes) - 1 IN
        /\ v # frame.bytes[i]
        /\ rx' = Replace(frame.bytes, i, v)
        /\ corrupt' = which
    /\ pc' = "header"
    /\ UNCHANGED <<op, command, params, frame, tx, pending, late, ack, header,
                   len_lcs, data_dcs, response, result, nreads, nwrites,
                   shortRead, failRead, calls>>
    /\ UNCHANGED session

\* a test calls _read_frame on a Transport that has nothing buffered yet
CodecReadRaw ==
    /\ pc = "idle" /\ op = "none"
    /\ op' = "_read_frame"
    /\ pc' = "header"
    /\ UNCHANGED <<command, params, frame, tx, rx, pending, late, ack, header,
                   len_lcs, data_dcs, response, result, nreads, nwrites,
                   shortRead, failRead, corrupt, calls>>
    /\ UNCHANGED session

\* one more byte arrives while _read_frame is blocked in a read
MockArrive ==
    /\ op = "_read_frame"
    /\ Len(rx) < Min(Need, MaxBurst)
    /\ \E b \in WireBytes : rx' = Append(rx, b)
    /\ UNCHANGED <<pc, op, command, params, frame, tx, pending, late, ack, header,
                   len_lcs, data_dcs, response, result, nreads, nwrites,
                   shortRead, failRead, corrupt, calls>>
    /\ UNCHANGED session

---------------------------------------------------------------------------
(* main, connect and the scenarios *)

\* the channel and the Command Set state, left alone by a step of main
channel == <<pc, op, command, params, frame, tx, rx, pending, late, ack, header,
             len_lcs, data_dcs, response, result, nreads, nwrites, shortRead,
             failRead, corrupt, calls>>

\* b'\x55' * 10
WakeBurst == Repeat(85, 10)

\* connect: self.serial = serial.Serial(...), which may raise SerialException
\* (connect then returns False and main exits with code 1)
Connect_open ==
    /\ mpc = "main"
    /\ \E opened \in BOOLEAN :
        IF opened
        THEN serial' = "open" /\ mpc' = "wakeup"
        ELSE serial' = "None" /\ mpc' = "exit1"
    /\ UNCHANGED <<flushed, mode, card_info, polls>>
    /\ UNCHANGED channel

\* bytes reach the input buffer between the opening of the port and the flush
Noise ==
    /\ mpc \in {"wakeup", "flush"}
    /\ rx = <<>>
    /\ \E n \in {ACK, <<0, 0, 255>>} : rx' = n
    /\ UNCHANGED <<pc, op, command, params, frame, tx, pending, late, ack, header,
                   len_lcs, data_dcs, response, result, nreads, nwrites,
                   shortRead, failRead, corrupt, calls>>
    /\ UNCHANGED session

\* wakeup: self.serial.write(b'\x55' * 10), then time.sleep(0.1)
Wakeup_write ==
    /\ mpc = "wakeup"
    /\ tx' = Append(tx, WakeBurst)
    /\ mpc' = "flush"
    /\ UNCHANGED <<pc, op, command, params, frame, rx, pending, late, ack, header,
                   len_lcs, data_dcs, response, result, nreads, nwrites,
                   shortRead, failRead, corrupt, calls>>
    /\ UNCHANGED <<serial, flushed, mode, card_info, polls>>

\* a wakeup that leaves the input buffer as it is
Wakeup_flush_skip ==
    /\ mpc = "flush"
    /\ mpc' = "firmware"
    /\ UNCHANGED <<serial, flushed, mode, card_info, polls>>
    /\ UNCHANGED channel

\* wakeup: self.serial.reset_input_buffer()
Wakeup_flush ==
    /\ mpc = "flush"
    /\ rx' = <<>>
    /\ flushed' = Append(flushed, Len(tx))
    /\ mpc' = "firmware"
    /\ UNCHANGED <<pc, op, command, params, frame, tx, pending, late, ack, header,
                   len_lcs, data_dcs, response, result, nreads, nwrites,
                   shortRead, failRead, corrupt, calls>>
    /\ UNCHANGED <<serial, mode, card_info, polls>>

\* connect: firmware = self.get_firmware_version(), up to the first read
Connect_firmware ==
    /\ mpc = "firmware"
    /\ get_firmware_version
    /\ mpc' = "firmware?"
    /\ UNCHANGED <<serial, flushed, mode, card_info, polls>>

\* connect: if firmware: return True, else return False; main: sys.exit(1)
\* when connect returned False
Connect_return ==
    /\ mpc = "firmware?" /\ pc = "idle"
    /\ mpc' = IF result.kind = "firmware" THEN "ready" ELSE "exit1"
    /\ UNCHANGED <<serial, flushed, mode, card_info, polls>>
    /\ UNCHANGED channel

\* main: the try block dispatches on args.mode; scenario_1 and the default
\* branch only print
Main_dispatch ==
    /\ mpc = "ready"
    /\ mpc' = CASE mode = "pn532-reads-card" -> "s2:sam"
                [] mode = "pn532-emulates" -> "s3:init"
                [] OTHER -> "finally"
    /\ UNCHANGED <<serial, flushed, mode, card_info, polls>>
    /\ UNCHANGED channel

\* main: except Exception prints the traceback; the finally block follows
Main_except ==
    /\ mpc = "except"
    /\ mpc' = "finally"
    /\ UNCHANGED <<serial, flushed, mode, card_info, polls>>
    /\ UNCHANGED channel

\* main: finally: controller.disconnect(), which closes an open port
Main_finally ==
    /\ mpc = "finally"
    /\ serial' = IF serial = "open" THEN "closed" ELSE serial
    /\ mpc' = "done"
    /\ UNCHANGED <<flushed, mode, card_info, polls>>
    /\ UNCHANGED channel

\* a step of a scenario that moves it from position a to position b
Step(a, b) ==
    /\ mpc = a
    /\ mpc' = b
    /\ UNCHANGED <<serial, flushed, mode, card_info, polls>>

\* scenario_2: if not self.pn532.sam_configuration(): return
S2_sam == Step("s2:sam", "s2:sam?") /\ sam_configuration

S2_sam_return ==
    /\ pc = "idle"
    /\ Step("s2:sam?", IF result = ResTrue THEN "s2:poll" ELSE "finally")
    /\ UNCHANGED channel

\* scenario_2: card_info = self.pn532.read_passive_target()
S2_detect == Step("s2:poll", "s2:poll?") /\ read_passive_target(0, 1)

\* a loop that returns when a poll finds nothing
S2_detect_return_stop ==
    /\ mpc = "s2:poll?" /\ pc \in {"idle", "raised"}
    /\ mpc' = IF pc = "raised" THEN "except"
              ELSE IF result.kind = "card" THEN "s2:emv"
              ELSE "finally"
    /\ card_info' = IF pc = "idle" /\ result.kind = "card" THEN result.card
                    ELSE card_info
    /\ UNCHANGED <<serial, flushed, mode, polls>>
    /\ UNCHANGED channel

\* scenario_2: if card_info: ..., else on to time.sleep(1); an exception of
\* read_passive_target leaves the loop and the scenario for main's handler
S2_detect_return ==
    /\ mpc = "s2:poll?" /\ pc \in {"idle", "raised"}
    /\ mpc' = IF pc = "raised" THEN "except"
              ELSE IF result.kind = "card" THEN "s2:emv"
              ELSE "s2:sleep"
    /\ card_info' = IF pc = "idle" /\ result.kind = "card" THEN result.card
                    ELSE card_info
    /\ UNCHANGED <<serial, flushed, mode, polls>>
    /\ UNCHANGED channel

\* time.sleep(...) at the end of an iteration of a polling loop, from
\* position a on to the next iteration at position b
Sleep(a, b) ==
    /\ mpc = a
    /\ polls < MaxPolls
    /\ polls' = polls + 1
    /\ mpc' = b
    /\ UNCHANGED <<serial, flushed, mode, card_info>>
    /\ UNCHANGED channel

\* scenario_2: time.sleep(1)
S2_sleep == Sleep("s2:sleep", "s2:poll")

\* scenario_2: self.test_emv_commands(card_info['target_number'])
S2_emv ==
    /\ Step("s2:emv", "s2:emv?")
    /\ transceive_apdu(card_info.target_number, select_ppse)

\* test_emv_commands prints the outcome and returns
S2_emv_return ==
    /\ pc = "idle"
    /\ Step("s2:emv?", "s2:release")
    /\ UNCHANGED channel

\* scenario_2: self.pn532.release_target(card_info['target_number'])
S2_release ==
    /\ Step("s2:release", "s2:release?")
    /\ release_target(card_info.target_number)

\* scenario_2: break, and the scenario returns to main
S2_release_return ==
    /\ pc = "idle"
    /\ Step("s2:release?", "finally")
    /\ UNCHANGED channel

\* scenario_3: if not self.pn532.init_as_target(): return
S3_init == Step("s3:init", "s3:init?") /\ init_as_target

S3_init_return ==
    /\ pc = "idle"
    /\ Step("s3:init?", IF result = ResTrue THEN "s3:get" ELSE "finally")
    /\ UNCHANGED channel

\* scenario_3: data = self.pn532.get_target_data()
S3_get == Step("s3:get", "s3:get?") /\ get_target_data

\* a loop that answers whatever data a poll returned, however short
S3_get_return_any ==
    /\ pc = "idle"
    /\ Step("s3:get?",
            IF result.kind = "bytes" /\ result.data # <<>>
            THEN "s3:set" ELSE "s3:sleep")
    /\ UNCHANGED channel

\* scenario_3: if data: if len(data) >= 4: ... set_target_data
S3_get_return ==
    /\ pc = "idle"
    /\ Step("s3:get?",
            IF result.kind = "bytes" /\ result.data # <<>> /\ Len(result.data) >= 4
            THEN "s3:set" ELSE "s3:sleep")
    /\ UNCHANGED channel

\* scenario_3: self.pn532.set_target_data(b'\x90\x00')
S3_set == Step("s3:set", "s3:set?") /\ set_target_data(<<144, 0>>)

S3_set_return ==
    /\ pc = "idle"
    /\ Step("s3:set?", "s3:sleep")
    /\ UNCHANGED channel

\* scenario_3: time.sleep(0.1)
S3_sleep == Sleep("s3:sleep", "s3:get")

\* positions inside the try blocks of the two polling loops
LoopPositions ==
    {"s2:poll", "s2:poll?", "s2:sleep", "s2:emv", "s2:emv?", "s2:release",
     "s2:release?", "s3:get", "s3:get?", "s3:set", "s3:set?", "s3:sleep"}

\* Ctrl+C while a polling loop runs: except KeyboardInterrupt ends the loop,
\* whatever call was in progress is left, and the scenario returns to main
KeyboardInterrupt ==
    /\ mpc \in LoopPositions
    /\ pc \notin {"raised"}
    /\ mpc' = "cancelled"
    /\ pc' = "idle"
    /\ UNCHANGED <<op, command, params, frame, tx, rx, pending, late, ack, header,
                   len_lcs, data_dcs, response, result, nreads, nwrites,
                   shortRead, failRead, corrupt, calls>>
    /\ UNCHANGED <<serial, flushed, mode, card_info, polls>>

\* the scenario returns to main after "Stopped by user"
Cancelled_return ==
    /\ Step("cancelled", "finally")
    /\ UNCHANGED channel

---------------------------------------------------------------------------
(* Specifications *)

Init ==
    /\ pc = "idle" /\ op = "none"
    /\ command = <<>> /\ params = <<>>
    /\ frame = NoFrame
    /\ tx = <<>> /\ rx = <<>> /\ pending = 0 /\ late = <<>>
    /\ ack = <<>> /\ header = <<>> /\ len_lcs = <<>> /\ data_dcs = <<>>
    /\ response = None /\ result = ResNotYet
    /\ nreads = 0 /\ nwrites = 0
    /\ shortRead = FALSE /\ failRead = 0
    /\ corrupt = "none"
    /\ calls = 0
    /\ mpc = "none" /\ serial = "open" /\ flushed = <<>>
    /\ mode = "none" /\ card_info = NoCard /\ polls = 0

Next ==
    \/ Call_send_command
    \/ Call_read_passive_target
    \/ ReadAck
    \/ ReadHeader
    \/ ReadLenLcs
    \/ ReadDataDcs
    \/ ReadPostamble
    \/ Return_send_command
    \/ Return_read_passive_target
    \/ ChipReply
    \/ LateArrive

Spec == Init /\ [][Next]_vars

NextCodec ==
    \/ CodecBuild
    \/ CodecFeed
    \/ CodecFeedCorrupt
    \/ CodecReadRaw
    \/ MockArrive
    \/ ReadHeader
    \/ ReadLenLcs
    \/ ReadDataDcs
    \/ ReadPostamble

SpecCodec == Init /\ [][NextCodec]_vars

NextSet ==
    \/ Call_get_firmware_version
    \/ Call_sam_configuration
    \/ Call_read_passive_target
    \/ Call_transceive_apdu
    \/ Call_release_target
    \/ Call_init_as_target
    \/ Call_get_target_data
    \/ Call_set_target_data
    \/ ChipAnswer
    \/ ReadAck
    \/ ReadHeader
    \/ ReadLenLcs
    \/ ReadDataDcs
    \/ ReadPostamble
    \/ Return_get_firmware_version
    \/ Return_sam_configuration
    \/ Return_read_passive_target
    \/ Return_transceive_apdu
    \/ Return_release_target
    \/ Return_init_as_target
    \/ Return_get_target_data
    \/ Return_set_target_data

SpecSet == Init /\ [][NextSet]_vars

\* the state after parse_args and the construction of the controller
InitMain ==
    /\ pc = "idle" /\ op = "none"
    /\ command = <<>> /\ params = <<>>
    /\ frame = NoFrame
    /\ tx = <<>> /\ rx = <<>> /\ pending = 0 /\ late = <<>>
    /\ ack = <<>> /\ header = <<>> /\ len_lcs = <<>> /\ data_dcs = <<>>
    /\ response = None /\ result = ResNotYet
    /\ nreads = 0 /\ nwrites = 0
    /\ shortRead = FALSE /\ failRead = 0
    /\ corrupt = "none"
    /\ calls = 0
    /\ mpc = "main" /\ serial = "None" /\ flushed = <<>>
    /\ mode \in {"none", "phone-reads-card", "pn532-reads-card", "pn532-emulates"}
    /\ card_info = NoCard /\ polls = 0

\* the steps of the controller: main, connect, the scenarios, and the
\* Command Set calls they make
Controller ==
    \/ Connect_open
    \/ Wakeup_write
    \/ Wakeup_flush
    \/ Connect_firmware
    \/ Connect_return
    \/ Main_dispatch
    \/ Main_except
    \/ Main_finally
    \/ S2_sam
    \/ S2_sam_return
    \/ S2_detect
    \/ S2_detect_return
    \/ S2_sleep
    \/ S2_emv
    \/ S2_emv_return
    \/ S2_release
    \/ S2_release_return
    \/ S3_init
    \/ S3_init_return
    \/ S3_get
    \/ S3_get_return
    \/ S3_set
    \/ S3_set_return
    \/ S3_sleep
    \/ Cancelled_return
    \/ ReadAck
    \/ ReadHeader
    \/ ReadLenLcs
    \/ ReadDataDcs
    \/ ReadPostamble
    \/ Return_get_firmware_version
    \/ Return_sam_configuration
    \/ Return_read_passive_target
    \/ Return_transceive_apdu
    \/ Return_release_target
    \/ Return_init_as_target
    \/ Return_get_target_data
    \/ Return_set_target_data

NextMain ==
    \/ Controller
    \/ KeyboardInterrupt
    \/ Noise
    \/ ChipAnswerMode

SpecMain == InitMain /\ [][NextMain]_vars

\* SpecMain with a controller that keeps running: every Transport read returns
\* when its timeout ends, every sleep ends, and nothing else in the controller
\* blocks. Nothing is asked of the chip, the noise or the user.
SpecMainFair == SpecMain /\ WF_vars(Controller)

---------------------------------------------------------------------------
(* Claims *)

\* the decoded frame content of a round trip: the direction tag _read_frame
\* took from the frame, followed by the data it returns
Decoded == <<FrameTfi(data_dcs)>> \o response.val

\* C1: round trip. For every opcode byte and every params of length <= 253,
\* _read_frame fed the frame built by _build_frame succeeds and recovers
\* tag, opcode and params: the tag as the direction tag it reads off the
\* frame (and strips), opcode + params as the data it returns.
C1_RoundTrip ==
    (op = "_build_frame" /\ pc = "ret" /\ corrupt = "none"
        /\ Len(params) <= ByteMax - 2)
    => /\ response.some
       /\ ~shortRead
       /\ response.val = command \o params
       /\ Decoded = <<TFI>> \o command \o params

\* a round trip with the longest params has returned
C1_Witness ==
    /\ op = "_build_frame" /\ pc = "ret" /\ corrupt = "none"
    /\ Len(params) = ByteMax - 2
    /\ response.some

\* C2: checksum invariant. Every frame _build_frame returns has a length byte
\* equal to 1 + len(opcode + params), (length + LCS) mod 256 = 0 and
\* (direction tag + sum(data) + DCS) mod 256 = 0.
C2_ChecksumInvariant ==
    frame.ok =>
        LET b == frame.bytes
            data == command \o params
        IN  /\ Len(b) = Len(data) + 8
            /\ b[4] = 1 + Len(data)
            /\ (b[4] + b[5]) % ByteMod = 0
            /\ SubSeq(b, 7, Len(b) - 2) = data
            /\ (b[6] + Sum(SubSeq(b, 7, Len(b) - 2)) + b[Len(b) - 1]) % ByteMod = 0

\* a frame of the greatest length, 255, has been built from nonzero data
C2_Witness ==
    /\ op = "_build_frame" /\ pc = "built" /\ frame.ok
    /\ frame.bytes[4] = ByteMax
    /\ Sum(params) > ByteMod

\* C3 (as claimed): _read_frame returns a payload only if the first 3 bytes are
\* 00 00 FF, (length + LCS) mod 256 = 0, and the sum of the `length` bytes of
\* frame identifier + data plus the DCS byte is 0 mod 256, for every declared
\* length, 0 and 1 included. Stated for the streams that serve every read in
\* full, so that a violation rests on the checks alone.
C3_PayloadOnlyIfVerified ==
    (pc = "ret" /\ response.some /\ ~shortRead) =>
        /\ header = <<0, 0, 255>>
        /\ Len(len_lcs) = 2
        /\ (len_lcs[1] + len_lcs[2]) % ByteMod = 0
        /\ Len(data_dcs) = len_lcs[1] + 1
        /\ (Sum(SubSeq(data_dcs, 1, len_lcs[1])) + data_dcs[len_lcs[1] + 1])
               % ByteMod = 0

\* C4: when the 6 bytes read after the write are not the ACK literal (a NACK,
\* other bytes, or fewer than 6 bytes), send_command returns no payload, has
\* issued no Transport read but that one, and has written the frame once.
C4_NoAck ==
    (pc = "ret" /\ op \in {"send_command", "read_passive_target"} /\ ack # ACK)
    => /\ ~response.some
       /\ nreads = 1
       /\ nwrites = 1
       /\ header = <<>> /\ len_lcs = <<>> /\ data_dcs = <<>>

\* the second send_command of a session has returned after reading a NACK
C4_Witness ==
    /\ pc = "ret" /\ op = "send_command"
    /\ ack = NACK
    /\ calls = 2 /\ Len(tx) = 2

\* C5 (as claimed): a send_command call that returns has written exactly one
\* frame, and once decoding the response frame has failed (bad header, bad LCS,
\* bad DCS, short read) the call reads and writes nothing more and returns no
\* payload.
C5_FailsImmediately ==
    pc = "ret" =>
        /\ nwrites = 1
        /\ failRead # 0 => (~response.some /\ nreads = failRead)

\* C6 (as claimed): a short read of any of the four reads of _read_frame, the
\* trailing postamble byte included, makes _read_frame return no payload.
C6_ShortReadFails ==
    (pc = "ret" /\ shortRead) => ~response.some

\* C7 (as claimed): when send_command writes a frame, the previous send_command
\* has consumed its ACK and its whole response frame, or has failed.
C7_HalfDuplex ==
    [][tx' # tx =>
          /\ pc = "idle"
          /\ \/ calls = 0
             \/ ~response.some
             \/ ~shortRead]_vars

\* C8: for every frame built by _build_frame, replacing the LCS byte or the DCS
\* byte by any other value makes _read_frame return no payload.
C8_ChecksumCorruptionDetected ==
    (op = "_build_frame" /\ pc \in {"postamble", "ret"}
        /\ corrupt \in {"lcs", "dcs"})
    => (pc = "ret" /\ ~response.some)

\* a frame of more than one data byte with its DCS replaced was rejected at
\* the DCS check, after the header and the LCS passed
C8_Witness ==
    /\ op = "_build_frame" /\ pc = "ret" /\ corrupt = "dcs"
    /\ Len(params) > 0
    /\ ~response.some /\ failRead = 3 /\ ~shortRead

\* C9: when 1 (direction tag) + 1 (opcode) + len(params) exceeds 255,
\* _build_frame raises instead of returning a frame and send_command writes
\* nothing to the Transport.
C9_OversizeRejected ==
    (op \in {"send_command", "read_passive_target"}
        /\ 1 + Len(command) + Len(params) > ByteMax)
    => /\ ~frame.ok
       /\ pc = "raised"
       /\ nwrites = 0 /\ nreads = 0
       /\ Len(tx) = calls - 1
       /\ pending <= calls - 1

\* the second call of a session was handed 254 params bytes
C9_Witness ==
    /\ op = "send_command" /\ pc = "raised"
    /\ Len(params) = ByteMax - 1
    /\ calls = 2 /\ Len(tx) = 1

\* C10 (as claimed): a valid detection response (acknowledged, every check
\* passed, every read served in full) whose count byte is 0 yields a result
\* that is not an error and that differs from the result of a failed command.
C10_NoTargetDistinct ==
    (op = "read_passive_target" /\ pc = "idle" /\ ~shortRead
        /\ response.some /\ response.val # <<>> /\ response.val[1] = 0)
    => /\ result.kind # "IndexError"
       /\ result # ParseTarget(None)

\* C11 (as claimed): for a response that has a status byte, transceive_apdu
\* returns a data payload exactly when that byte is 0, and the payload is then
\* exactly the remaining bytes of the response, possibly none; for a nonzero
\* status it returns no data payload.
C11_ExchangeStatus ==
    (op = "transceive_apdu" /\ pc = "idle" /\ response.some
        /\ response.val # <<>>)
    => IF response.val[1] = 0
       THEN result = ResBytes(Tail(response.val))
       ELSE result.kind # "bytes"

\* C12 (as claimed): read_passive_target returns a target descriptor for a
\* response with count >= 1 only if the response holds target number, ATQA,
\* SAK, UID length L and all L UID bytes; the UID of a returned descriptor never
\* has fewer than L bytes.
C12_NoPartialDescriptor ==
    (op = "read_passive_target" /\ pc = "idle" /\ result.kind = "card")
    => /\ Len(response.val) >= 6 + response.val[6]
       /\ Len(result.card.uid) = result.card.uid_length

\* C13 (as claimed): whatever payload the chip returns inside a valid frame,
\* no Command Set operation is left through an exception: each returns a
\* result to its caller.
C13_NoUnhandledError ==
    /\ pc # "raised"
    /\ result.kind # "IndexError"

\* C16 (as claimed): sam_configuration reports success if and only if
\* send_command returned a response that is not empty; with no response, or
\* with an empty decoded payload, it reports failure.
C16_SamSuccess ==
    (op = "sam_configuration" /\ pc = "idle")
    => (result = ResTrue <=> (response.some /\ response.val # <<>>))

\* the SAK values that have bit 0x20 set
Bit20 == UNION {(64 * k + 32)..(64 * k + 63) : k \in 0..3}

\* C18: SAK classification is a first-match lookup over all 256 SAK values:
\* a value with bit 0x20 set is ISO14443-4, also when it otherwise equals a
\* listed value (0x28, 0x38); otherwise 0x08 is Classic-1K, 0x18 Classic-4K,
\* 0x00 Ultralight, 0x10 Plus; every other value is Unknown with the raw value.
C18_SakLookup ==
    (op = "read_passive_target" /\ pc = "idle" /\ result.kind = "card")
    => LET sak == response.val[5]
           type == result.card.card_type
       IN  /\ sak \in Bit20 => type = <<"ISO14443-4 (EMV/Smart Card)">>
           /\ sak = 8 => type = <<"MIFARE Classic 1K">>
           /\ sak = 24 => type = <<"MIFARE Classic 4K">>
           /\ sak = 0 => type = <<"MIFARE Ultralight">>
           /\ sak = 16 => type = <<"MIFARE Plus">>
           /\ sak \notin Bit20 \cup {8, 24, 0, 16} => type = <<"Unknown (SAK)", sak>>

\* a card with SAK 0x28 (bit 0x20 and the bits of Classic-1K) was classified
C18_Witness ==
    /\ op = "read_passive_target" /\ pc = "idle" /\ result.kind = "card"
    /\ result.card.sel_res = 40
    /\ result.card.card_type = <<"ISO14443-4 (EMV/Smart Card)">>

\* C19 (as claimed): a payload send_command returns was decoded from the
\* chip's reply to the frame that call wrote, never from bytes of the reply to
\* an earlier call; so no call returns a payload while the chip has yet to
\* answer the frame it wrote. Stated for the calls whose reads were all served
\* in full and whose payload is not empty, so that a violation rests on the
\* stale bytes alone.
C19_OwnReply ==
    (pc = "ret" /\ op = "send_command" /\ response.some /\ response.val # <<>>
        /\ ~shortRead)
    => pending = 0

\* C14: on a connection the first write is the burst of 10 bytes 0x55, the
\* input buffer is discarded after it and before the first command frame is
\* written, and that happens once: no later write is the wake burst and no
\* later send_command discards the input buffer.
C14_WakeOnce ==
    /\ Len(tx) >= 1 => tx[1] = Repeat(85, 10)
    /\ Len(tx) >= 2 => flushed = <<1>>
    /\ \A i \in 2..Len(tx) : tx[i] # Repeat(85, 10)
    /\ flushed \in {<<>>, <<1>>}
    /\ mpc = "firmware" => rx = <<>>

\* a session that wrote the wake burst, flushed, and has written five command
\* frames since
C14_Witness ==
    /\ Len(tx) = 6
    /\ tx[1] = Repeat(85, 10)
    /\ flushed = <<1>>
    /\ mpc = "s2:release?"

\* the Command Set operations of the operating modes
ModeOps ==
    {"sam_configuration", "read_passive_target", "transceive_apdu",
     "release_target", "init_as_target", "get_target_data", "set_target_data"}

\* C15: connect returns true if and only if the firmware query issued after the
\* wake sequence returned a response of at least 4 bytes, decoded as IC =
\* byte0, version = byte1, revision = byte2, support flags = byte3; with no
\* ACK, an invalid frame, or an empty or shorter response the session is not
\* connected, and no mode command is issued on a session that did not reach
\* Ready.
C15_ReadyIffFirmware ==
    /\ mpc = "ready" =>
        /\ op = "get_firmware_version" /\ flushed = <<1>>
        /\ response.some /\ Len(response.val) >= 4
        /\ result.kind = "firmware"
        /\ result.data = SubSeq(response.val, 1, 4)
    /\ mpc = "exit1" =>
        /\ ~(response.some /\ Len(response.val) >= 4)
        /\ op \in {"none", "get_firmware_version"}
        /\ Len(tx) <= 2
    /\ op \in ModeOps =>
        mpc \notin {"main", "wakeup", "flush", "firmware", "firmware?", "ready",
                    "exit1"}

\* connect returned true on a firmware response of exactly 4 bytes
C15_Witness ==
    /\ mpc = "ready"
    /\ response.some /\ Len(response.val) = 4
    /\ result.data = <<39, 33, 34, 35>>

\* a detection command / a get-target-data command has just been written
DetectSent == mpc = "s2:poll?" /\ pc = "ack"
GetSent == mpc = "s3:get?" /\ pc = "ack"

\* C17: in a polling loop a "no target" / "no data this poll" result does not
\* end the mode and is not treated as an error: the mode goes on to its pause
\* and from the pause to the same Command Set call, unless it is cancelled; and
\* while the loop has polls left, another detection / get-target-data command
\* is eventually sent or the mode is cancelled.
C17_PollAgain ==
    /\ [][(mpc = "s2:poll?" /\ pc = "idle" /\ result.kind = "None" /\ mpc' # mpc)
            => mpc' \in {"s2:sleep", "cancelled"}]_vars
    /\ [][(mpc = "s3:get?" /\ pc = "idle" /\ result.kind = "None" /\ mpc' # mpc)
            => mpc' \in {"s3:sleep", "cancelled"}]_vars
    /\ [][(mpc = "s2:sleep" /\ mpc' # mpc) => mpc' \in {"s2:poll", "cancelled"}]_vars
    /\ [][(mpc = "s3:sleep" /\ mpc' # mpc) => mpc' \in {"s3:get", "cancelled"}]_vars
    /\ (mpc = "s2:poll?" /\ pc = "idle" /\ result.kind = "None" /\ polls < MaxPolls)
           ~> (DetectSent \/ mpc = "cancelled")
    /\ (mpc = "s3:get?" /\ pc = "idle" /\ result.kind = "None" /\ polls < MaxPolls)
           ~> (GetSent \/ mpc = "cancelled")

\* a detection command sent after two polls that found no target
C17_Witness ==
    /\ DetectSent
    /\ polls >= 2
    /\ Len(tx) >= 5

\* the frames of scenario_2's commands as they appear in tx
SamFrame == _build_frame(<<CMD_SAM_CONFIGURATION, 1, 20, 1>>).bytes
DetectFrame == _build_frame(<<CMD_IN_LIST_PASSIVE_TARGET, 1, 0>>).bytes
ExchangeFrame(tg) == _build_frame(<<CMD_IN_DATA_EXCHANGE, tg>> \o select_ppse).bytes
ReleaseFrame(tg) == _build_frame(<<CMD_IN_RELEASE, tg>>).bytes

\* C20 (as claimed): in pn532-reads-card mode detection commands follow the
\* SAM configuration, and once a target was detected the mode ends only after
\* it has issued, in this order, that detection, the data exchange and the
\* release, the last two with the target number the detection returned, and
\* the release exactly once, whatever the data exchange returned.
C20_ReleaseOnce ==
    /\ (op = "read_passive_target" /\ pc # "idle") =>
           (tx[3] = SamFrame /\ tx[Len(tx)] = DetectFrame)
    /\ (mode = "pn532-reads-card" /\ card_info # NoCard
           /\ mpc \in {"cancelled", "except", "finally", "done"})
       => LET n == Len(tx)
              tg == card_info.target_number
          IN  /\ tx[n - 2] = DetectFrame
              /\ tx[n - 1] = ExchangeFrame(tg)
              /\ tx[n] = ReleaseFrame(tg)
              /\ Cardinality({i \in 1..n : tx[i] = ReleaseFrame(tg)}) = 1

\* the frames of scenario_3's polling commands as they appear in tx
GetFrame == _build_frame(<<CMD_TG_GET_DATA>>).bytes
SetFrame == _build_frame(<<CMD_TG_SET_DATA, 144, 0>>).bytes

\* a Command Set call of operation o is issued by this step
Issues(o) == calls' # calls /\ op' = o

\* C21: in emulation mode a get-target-data command is issued only after
\* init-as-target reported emulation active (the first one directly after it,
\* the later ones after a poll or its answer); a set-target-data command is
\* issued only directly after a get-target-data poll that returned status 0
\* with at least 4 data bytes; and a poll that returned nothing (nonzero
\* status, no data, or a failed command) is followed by the next poll with no
\* set-target-data in between.
C21_EmulationOrder ==
    /\ [][Issues("get_target_data") =>
            \/ op = "init_as_target" /\ pc = "idle" /\ result = ResTrue
            \/ op \in {"get_target_data", "set_target_data"} /\ pc = "idle"]_vars
    /\ [][Issues("set_target_data") =>
            /\ op = "get_target_data" /\ pc = "idle"
            /\ response.some /\ Len(response.val) >= 5 /\ response.val[1] = 0
            /\ result = ResBytes(Tail(response.val))
            /\ tx[Len(tx)] = GetFrame]_vars
    /\ [][(calls' # calls /\ op = "get_target_data" /\ result.kind = "None")
            => op' = "get_target_data"]_vars
    /\ [][(op \in {"init_as_target", "get_target_data", "set_target_data"}
             /\ calls' # calls)
            => op' \in {"get_target_data", "set_target_data"}]_vars

\* a set-target-data command written in the second iteration of the loop,
\* after a poll that returned status 0 and four data bytes
C21_Witness ==
    /\ mpc = "s3:set?" /\ pc = "ack" /\ op = "set_target_data"
    /\ polls >= 1
    /\ tx[Len(tx)] = SetFrame
    /\ tx[Len(tx) - 1] = GetFrame

\* C22 (as claimed): when the process ends, after the finally block of main or
\* at sys.exit(1) after a failed connect, a serial handle that connect opened
\* has been closed.
C22_ClosedAtExit ==
    mpc \in {"done", "exit1"} => serial # "open"

====
